---------------------------- MODULE Spec2Model ----------------------------
(***************************************************************************)
(* Model of AppSubStage_CalibrateWithMat (psmoveconfigtool): the           *)
(* calibration-mat session state machine, its sample accumulation and the  *)
(* reporting of tracker poses.                                             *)
(*                                                                         *)
(* Floats are modelled as exact rationals: a vector is [v |-> <<..>>,      *)
(* d |-> den] and stands for v/d.  Time is kept as the value of            *)
(* now - m_stableStartTime (the local stableDuration of update()), which   *)
(* is the only way the code uses the clock; it saturates at the dwell      *)
(* time, which keeps every comparison against the dwell time exact.        *)
(***************************************************************************)
EXTENDS Integers, Sequences, FiniteSets, TLC

VARIABLES
    m_menuState,                  \* eMenuState
    m_bIsStable,                  \* bool
    stableDuration,               \* now - m_stableStartTime at the last clock read
    m_sampleLocationIndex,        \* int
    m_psmoveTrackerPoseContexts,  \* listIndex -> PS3EYETrackerPoseContext
    m_hmdTrackerPoseContext,      \* HMDTrackerPoseContext
    m_trackerViews,               \* parent stage: listIndex of each tracker view
    m_hmdView,                    \* parent stage: TRUE iff m_hmdView != nullptr
    requests,                     \* parent stage: request_set_tracker_pose calls per tracker
    lastStep,                     \* history: the code path the last operation took
    stableStreak,                 \* history: length of the run of stable ticks in this state
    solve                         \* the static pose functions: arguments and results of a call

vars == <<m_menuState, m_bIsStable, stableDuration, m_sampleLocationIndex,
          m_psmoveTrackerPoseContexts, m_hmdTrackerPoseContext,
          m_trackerViews, m_hmdView, requests, lastStep, stableStreak, solve>>

-----------------------------------------------------------------------------
(* Bounds and program constants *)

\* samples per mat location (declared in the header)
k_mat_calibration_sample_count == 2

\* clock granularity: a tick reads the clock FrameMs or 2*FrameMs after the last read
FrameMs == 500

k_mat_sample_location_count == 5

k_stabilize_wait_time_ms == 1000

\* listIndex values of the tracker views the parent stage may hold
TrackerIndices == {0, 1}

Locations == 0 .. (k_mat_sample_location_count - 1)

SampleSlots == 0 .. (k_mat_calibration_sample_count - 1)

HmdSlots == 0 .. (k_mat_sample_location_count - 1)

FrameTimes == {FrameMs, 2 * FrameMs}

-----------------------------------------------------------------------------
(* Float vectors as exact rationals *)

Vec(t) == [v |-> t, d |-> 1]

\* PSMoveFloatVector2/3 and PSMoveQuaternion operator+
VecAdd(a, b) ==
    [v |-> [i \in DOMAIN a.v |-> a.v[i] * b.d + b.v[i] * a.d], d |-> a.d * b.d]

\* unsafe_divide(N)
unsafe_divide(a, n) == [v |-> a.v, d |-> a.d * n]

\* equality of the values two vectors stand for
VecEq(a, b) ==
    /\ DOMAIN a.v = DOMAIN b.v
    /\ \A i \in DOMAIN a.v : a.v[i] * b.d = b.v[i] * a.d

\* pixel locations a tracker may report for the controller
ScreenPoints == {Vec(<<0, 0>>), Vec(<<2, 4>>)}

\* content of memory that was never written
IndeterminatePoint == Vec(<<9, 9>>)

\* HMD poses the head device may report: position and orientation (w, x, y, z)
HmdPoses ==
    { [Position |-> Vec(<<0, 0, 0>>), Orientation |-> Vec(<<1, 0, 0, 0>>)],
      [Position |-> Vec(<<5, 0, 10>>), Orientation |-> Vec(<<0, 1, 0, 0>>)] }

IndeterminatePosition == Vec(<<9, 9, 9>>)

IndeterminateOrientation == Vec(<<9, 9, 9, 9>>)

k_psmove_float_vector3_zero == Vec(<<0, 0, 0>>)

k_psmove_quaternion_identity == Vec(<<1, 0, 0, 0>>)

-----------------------------------------------------------------------------
(* Quaternion normalisation *)

Abs(x) == IF x < 0 THEN 0 - x ELSE x

RECURSIVE Gcd(_, _)
Gcd(a, b) == IF b = 0 THEN a ELSE Gcd(b, a % b)

GcdOf4(t) == Gcd(Gcd(Abs(t[1]), Abs(t[2])), Gcd(Abs(t[3]), Abs(t[4])))

\* normalize_with_default: q / |q|, or the default when |q| is zero.  A unit
\* quaternion is represented by the shortest integer vector of its direction:
\* two quaternions normalise to the same value iff one is a positive multiple
\* of the other.
normalize_with_default(q, default) ==
    IF \A i \in DOMAIN q.v : q.v[i] = 0
    THEN default
    ELSE [v |-> [i \in DOMAIN q.v |-> q.v[i] \div GcdOf4(q.v)], d |-> 1]

-----------------------------------------------------------------------------
(* The object's data as one value, so that the handlers are functions *)

MenuStates ==
    { "initial", "calibrationStepPlacePSMove", "calibrationStepRecordPSMove",
      "calibrationStepPlaceHMD", "calibrationStepRecordHMD",
      "calibrationStepComputeTrackerPoses", "calibrateStepSuccess",
      "calibrateStepFailed" }

Self ==
    [ m_menuState |-> m_menuState,
      m_bIsStable |-> m_bIsStable,
      stableDuration |-> stableDuration,
      m_sampleLocationIndex |-> m_sampleLocationIndex,
      m_psmoveTrackerPoseContexts |-> m_psmoveTrackerPoseContexts,
      m_hmdTrackerPoseContext |-> m_hmdTrackerPoseContext,
      requests |-> requests,
      lastStep |-> lastStep ]

CommitData(s) ==
    /\ m_menuState' = s.m_menuState
    /\ m_bIsStable' = s.m_bIsStable
    /\ stableDuration' = s.stableDuration
    /\ m_sampleLocationIndex' = s.m_sampleLocationIndex
    /\ m_psmoveTrackerPoseContexts' = s.m_psmoveTrackerPoseContexts
    /\ m_hmdTrackerPoseContext' = s.m_hmdTrackerPoseContext
    /\ requests' = s.requests
    /\ lastStep' = s.lastStep
    /\ UNCHANGED <<m_trackerViews, m_hmdView, solve>>

\* the states that wait for a device to rest for the dwell time
PlaceStates == {"calibrationStepPlacePSMove", "calibrationStepPlaceHMD"}

\* no tick of the current state is part of an unbroken run of stable ticks
NoStreak == 0 - 1

\* history: the stability signal as the ticks of a Place state observed it,
\* kept apart from m_bIsStable and the clock.  The time from the first tick
\* of the present unbroken run of stable ticks to the last tick (cut off at
\* the dwell time), or NoStreak; a tick on which the signal is false ends
\* the run.
ObserveStreak(isStable, dt) ==
    IF ~isStable
    THEN NoStreak
    ELSE IF stableStreak = NoStreak
         THEN 0
         ELSE IF stableStreak + dt < k_stabilize_wait_time_ms
              THEN stableStreak + dt
              ELSE k_stabilize_wait_time_ms

\* an operation other than a tick of a Place state: a run of stable ticks
\* does not outlive the entry into a Place state
Commit(s) ==
    /\ CommitData(s)
    /\ stableStreak' = IF s.m_menuState # m_menuState /\ s.m_menuState \in PlaceStates
                       THEN NoStreak
                       ELSE stableStreak

\* a tick of a Place state on which the device reports isStable, dt after
\* the previous tick
CommitObserved(s, isStable, dt) ==
    /\ CommitData(s)
    /\ stableStreak' = ObserveStreak(isStable, dt)

\* HMDTrackerPoseContext::clear() (declared in the header): zeroes the head set
HmdContextClear ==
    [ worldSpacePoints |-> [i \in HmdSlots |-> k_psmove_float_vector3_zero],
      worldSpaceOrientations |-> [i \in HmdSlots |-> Vec(<<0, 0, 0, 0>>)],
      worldSpaceSampleCount |-> 0,
      avgHMDWorldSpacePoint |-> k_psmove_float_vector3_zero,
      avgHMDWorldSpaceOrientation |-> Vec(<<0, 0, 0, 0>>) ]

\* update() keeps the results of the pose functions as "solved" only; their
\* arithmetic is modelled apart, in the variable solve
NoSolve == [phase |-> "none"]

-----------------------------------------------------------------------------
(* setState and its hooks *)

onExitState(s, oldState) == s

\* mutant: the PlacePSMove entry hook leaves the sample counts as they are
onEnterState_KeepCounts(s, newState) ==
    CASE newState = "calibrationStepPlacePSMove" ->
            [s EXCEPT
                !.m_sampleLocationIndex = 0,
                !.m_bIsStable = FALSE,
                !.m_hmdTrackerPoseContext = HmdContextClear]
      [] newState = "calibrationStepPlaceHMD" ->
            [s EXCEPT
                !.m_bIsStable = FALSE,
                !.m_hmdTrackerPoseContext.worldSpaceSampleCount = 0]
      [] OTHER -> s

\* mutant: the PlacePSMove entry hook leaves the location index as it is
onEnterState_KeepsIndex(s, newState) ==
    CASE newState = "calibrationStepPlacePSMove" ->
            [s EXCEPT
                !.m_psmoveTrackerPoseContexts =
                    [t \in TrackerIndices |->
                        IF t \in m_trackerViews
                        THEN [s.m_psmoveTrackerPoseContexts[t]
                                 EXCEPT !.screenSpacePointCount = 0]
                        ELSE s.m_psmoveTrackerPoseContexts[t]],
                !.m_bIsStable = FALSE,
                !.m_hmdTrackerPoseContext = HmdContextClear]
      [] newState = "calibrationStepPlaceHMD" ->
            [s EXCEPT
                !.m_bIsStable = FALSE,
                !.m_hmdTrackerPoseContext.worldSpaceSampleCount = 0]
      [] OTHER -> s

\* mutant: the PlaceHMD entry hook resets what the PlacePSMove entry hook
\* resets
onEnterState_PlaceHmdResetsAll(s, newState) ==
    CASE newState \in {"calibrationStepPlacePSMove", "calibrationStepPlaceHMD"} ->
            [s EXCEPT
                !.m_psmoveTrackerPoseContexts =
                    [t \in TrackerIndices |->
                        IF t \in m_trackerViews
                        THEN [s.m_psmoveTrackerPoseContexts[t]
                                 EXCEPT !.screenSpacePointCount = 0]
                        ELSE s.m_psmoveTrackerPoseContexts[t]],
                !.m_sampleLocationIndex = 0,
                !.m_bIsStable = FALSE,
                !.m_hmdTrackerPoseContext = HmdContextClear]
      [] OTHER -> s

\* mutant: the PlaceHMD entry hook leaves the head sample count as it is
onEnterState_KeepHmdCount(s, newState) ==
    CASE newState = "calibrationStepPlacePSMove" ->
            [s EXCEPT
                !.m_psmoveTrackerPoseContexts =
                    [t \in TrackerIndices |->
                        IF t \in m_trackerViews
                        THEN [s.m_psmoveTrackerPoseContexts[t]
                                 EXCEPT !.screenSpacePointCount = 0]
                        ELSE s.m_psmoveTrackerPoseContexts[t]],
                !.m_sampleLocationIndex = 0,
                !.m_bIsStable = FALSE,
                !.m_hmdTrackerPoseContext = HmdContextClear]
      [] newState = "calibrationStepPlaceHMD" ->
            [s EXCEPT !.m_bIsStable = FALSE]
      [] OTHER -> s

onEnterState(s, newState) ==
    CASE newState = "calibrationStepPlacePSMove" ->
            [s EXCEPT
                !.m_psmoveTrackerPoseContexts =
                    [t \in TrackerIndices |->
                        IF t \in m_trackerViews
                        THEN [s.m_psmoveTrackerPoseContexts[t]
                                 EXCEPT !.screenSpacePointCount = 0]
                        ELSE s.m_psmoveTrackerPoseContexts[t]],
                !.m_sampleLocationIndex = 0,
                !.m_bIsStable = FALSE,
                !.m_hmdTrackerPoseContext = HmdContextClear]
      [] newState = "calibrationStepPlaceHMD" ->
            [s EXCEPT
                !.m_bIsStable = FALSE,
                !.m_hmdTrackerPoseContext.worldSpaceSampleCount = 0]
      [] OTHER -> s

\* mutant: the state is switched without running the entry hook
setState_SkipsEnterHook(s, newState) ==
    IF newState # s.m_menuState
    THEN [onExitState(s, s.m_menuState) EXCEPT !.m_menuState = newState]
    ELSE s

setState(s, newState) ==
    IF newState # s.m_menuState
    THEN [onEnterState(onExitState(s, s.m_menuState), newState)
             EXCEPT !.m_menuState = newState]
    ELSE s

Step(s, label) == [s EXCEPT !.lastStep = label]

-----------------------------------------------------------------------------
(* update(): one operator per case of the switch *)

Min(a, b) == IF a < b THEN a ELSE b

\* std::chrono now - m_stableStartTime, dt after the previous clock read
ReadStableDuration(s, dt) == Min(s.stableDuration + dt, k_stabilize_wait_time_ms)

\* mutant: the step is set to PlacePSMove without going through setState
updateInitial_AssignsStep(s) ==
    Step([s EXCEPT !.m_menuState = "calibrationStepPlacePSMove"], "initial")

updateInitial(s) ==
    Step(setState(s, "calibrationStepPlacePSMove"), "initial")

\* mutant: a tick on which the controller is not stable leaves the flag and
\* the start of the timer as they are, so that the stable time before it counts
updatePlacePSMove_KeepsCredit(s, isStable, dt) ==
    IF isStable
    THEN IF s.m_bIsStable
         THEN LET s1 == [s EXCEPT !.stableDuration = ReadStableDuration(s, dt)]
              IN  IF s1.stableDuration >= k_stabilize_wait_time_ms
                  THEN Step(setState(s1, "calibrationStepRecordPSMove"), "place.dwelt")
                  ELSE Step(s1, "place.waiting")
         ELSE Step([s EXCEPT !.m_bIsStable = TRUE, !.stableDuration = 0],
                   "place.stable")
    ELSE Step(s, "place.idle")

\* isStable: GetIsStableAndAlignedWithGravity() on this tick
updatePlacePSMove(s, isStable, dt) ==
    IF isStable
    THEN IF s.m_bIsStable
         THEN LET s1 == [s EXCEPT !.stableDuration = ReadStableDuration(s, dt)]
              IN  IF s1.stableDuration >= k_stabilize_wait_time_ms
                  THEN Step(setState(s1, "calibrationStepRecordPSMove"), "place.dwelt")
                  ELSE Step(s1, "place.waiting")
         ELSE Step([s EXCEPT !.m_bIsStable = TRUE, !.stableDuration = 0],
                   "place.stable")
    ELSE IF s.m_bIsStable
         THEN Step([s EXCEPT !.m_bIsStable = FALSE], "place.unstable")
         ELSE Step(s, "place.idle")

\* the tracker reports no pixel location for the controller
NoPixel == [v |-> <<>>, d |-> 1]

\* the loop "Average together all the samples we captured"
RECURSIVE SumScreenSamples(_, _, _)
SumScreenSamples(screenSpacePoints, sampleCount, sampleIndex) ==
    IF sampleIndex >= k_mat_calibration_sample_count
    THEN Vec(<<0, 0>>)
    ELSE VecAdd(SumScreenSamples(screenSpacePoints, sampleCount, sampleIndex + 1),
                screenSpacePoints[sampleCount])

AverageScreenSamples(screenSpacePoints, sampleCount) ==
    unsafe_divide(SumScreenSamples(screenSpacePoints, sampleCount, 0),
                  k_mat_calibration_sample_count)

\* mutant: the count of a full buffer still goes up when the tracker observes
\* the controller
RecordScreenSample_CountsPastCap(ctx, isTracking, pixel, locationIndex) ==
    IF isTracking /\ pixel # NoPixel
    THEN IF ctx.screenSpacePointCount < k_mat_calibration_sample_count
         THEN LET sampleCount == ctx.screenSpacePointCount
                  c1 == [ctx EXCEPT !.screenSpacePoints[sampleCount] = pixel,
                                    !.screenSpacePointCount = sampleCount + 1]
              IN  IF c1.screenSpacePointCount >= k_mat_calibration_sample_count
                  THEN [c1 EXCEPT !.avgScreenSpacePointAtLocation[locationIndex] =
                             AverageScreenSamples(c1.screenSpacePoints, sampleCount)]
                  ELSE c1
         ELSE [ctx EXCEPT !.screenSpacePointCount = ctx.screenSpacePointCount + 1]
    ELSE ctx

\* mutant: a pixel location a tracker reports is recorded whether or not the
\* controller is currently tracked
RecordScreenSample_IgnoresTracking(ctx, isTracking, pixel, locationIndex) ==
    IF pixel # NoPixel
       /\ ctx.screenSpacePointCount < k_mat_calibration_sample_count
    THEN LET sampleCount == ctx.screenSpacePointCount
             c1 == [ctx EXCEPT !.screenSpacePoints[sampleCount] = pixel,
                               !.screenSpacePointCount = sampleCount + 1]
         IN  IF c1.screenSpacePointCount >= k_mat_calibration_sample_count
             THEN [c1 EXCEPT !.avgScreenSpacePointAtLocation[locationIndex] =
                        AverageScreenSamples(c1.screenSpacePoints, sampleCount)]
             ELSE c1
    ELSE ctx

\* mutant: every appended sample stores an average, not the last one only
RecordScreenSample_AveragesEarly(ctx, isTracking, pixel, locationIndex) ==
    IF isTracking /\ pixel # NoPixel
       /\ ctx.screenSpacePointCount < k_mat_calibration_sample_count
    THEN LET sampleCount == ctx.screenSpacePointCount
             c1 == [ctx EXCEPT !.screenSpacePoints[sampleCount] = pixel,
                               !.screenSpacePointCount = sampleCount + 1]
         IN  [c1 EXCEPT !.avgScreenSpacePointAtLocation[locationIndex] =
                 AverageScreenSamples(c1.screenSpacePoints, sampleCount)]
    ELSE ctx

\* body of the sampling loop for one tracker
RecordScreenSample(ctx, isTracking, pixel, locationIndex) ==
    IF isTracking /\ pixel # NoPixel
       /\ ctx.screenSpacePointCount < k_mat_calibration_sample_count
    THEN LET sampleCount == ctx.screenSpacePointCount
             c1 == [ctx EXCEPT !.screenSpacePoints[sampleCount] = pixel,
                               !.screenSpacePointCount = sampleCount + 1]
         IN  IF c1.screenSpacePointCount >= k_mat_calibration_sample_count
             THEN [c1 EXCEPT !.avgScreenSpacePointAtLocation[locationIndex] =
                        AverageScreenSamples(c1.screenSpacePoints, sampleCount)]
             ELSE c1
    ELSE ctx

NeedMoreSamples(s) ==
    \E t \in m_trackerViews :
        s.m_psmoveTrackerPoseContexts[t].screenSpacePointCount
            < k_mat_calibration_sample_count

\* history only: a tracker whose buffer is full observes the controller on
\* this tick
SeenAtCap(s, isTracking, pixels) ==
    \E t \in m_trackerViews :
        /\ isTracking
        /\ pixels[t] # NoPixel
        /\ s.m_psmoveTrackerPoseContexts[t].screenSpacePointCount
               >= k_mat_calibration_sample_count

\* mutant: after the last location the session goes on to PlaceHMD whether
\* or not there is a head device
AdvanceLocation_IgnoresHmdView(s) ==
    LET s1 == [s EXCEPT !.m_sampleLocationIndex = s.m_sampleLocationIndex + 1]
    IN  IF s1.m_sampleLocationIndex < k_mat_sample_location_count
        THEN Step(setState(s1, "calibrationStepPlacePSMove"), "record.next")
        ELSE Step(setState(s1, "calibrationStepPlaceHMD"),
                  IF m_hmdView THEN "record.toHMD" ELSE "record.noHMD")

\* the branch taken once sampling at this location is complete and the
\* controller is picked up
AdvanceLocation(s) ==
    LET s1 == [s EXCEPT !.m_sampleLocationIndex = s.m_sampleLocationIndex + 1]
    IN  IF s1.m_sampleLocationIndex < k_mat_sample_location_count
        THEN Step(setState(s1, "calibrationStepPlacePSMove"), "record.next")
        ELSE IF m_hmdView
             THEN Step(setState(s1, "calibrationStepPlaceHMD"), "record.toHMD")
             ELSE Step(setState(s1, "calibrateStepSuccess"), "record.noHMD")

\* mutant: once sampling at the location is complete the session moves on
\* without waiting for the controller to be picked up
updateRecordPSMove_DoesNotWait(s, bIsStable, isTracking, pixels) ==
    IF NeedMoreSamples(s)
    THEN IF bIsStable
         THEN Step([s EXCEPT !.m_psmoveTrackerPoseContexts =
                        [t \in TrackerIndices |->
                            IF t \in m_trackerViews
                            THEN RecordScreenSample(s.m_psmoveTrackerPoseContexts[t],
                                     isTracking, pixels[t], s.m_sampleLocationIndex)
                            ELSE s.m_psmoveTrackerPoseContexts[t]]],
                   IF SeenAtCap(s, isTracking, pixels)
                   THEN "record.capped" ELSE "record.sample")
         ELSE Step(setState(s, "calibrationStepPlacePSMove"), "record.moved")
    ELSE AdvanceLocation(s)

\* pixels: tracker -> the pixel location it reports, or NoPixel
updateRecordPSMove(s, bIsStable, isTracking, pixels) ==
    IF NeedMoreSamples(s)
    THEN IF bIsStable
         THEN Step([s EXCEPT !.m_psmoveTrackerPoseContexts =
                        [t \in TrackerIndices |->
                            IF t \in m_trackerViews
                            THEN RecordScreenSample(s.m_psmoveTrackerPoseContexts[t],
                                     isTracking, pixels[t], s.m_sampleLocationIndex)
                            ELSE s.m_psmoveTrackerPoseContexts[t]]],
                   IF SeenAtCap(s, isTracking, pixels)
                   THEN "record.capped" ELSE "record.sample")
         ELSE Step(setState(s, "calibrationStepPlacePSMove"), "record.moved")
    ELSE IF ~bIsStable
         THEN AdvanceLocation(s)
         ELSE Step(s, "record.hold")

\* mutant: the session gives up when the head device is still not at rest on
\* the tick after one on which it was not at rest
updatePlaceHMD_GivesUp(s, isStable, dt) ==
    IF isStable
    THEN IF s.m_bIsStable
         THEN LET s1 == [s EXCEPT !.stableDuration = ReadStableDuration(s, dt)]
              IN  IF s1.stableDuration >= k_stabilize_wait_time_ms
                  THEN Step(setState(s1, "calibrationStepRecordHMD"), "placeHMD.dwelt")
                  ELSE Step(s1, "placeHMD.waiting")
         ELSE Step([s EXCEPT !.m_bIsStable = TRUE, !.stableDuration = 0],
                   "placeHMD.stable")
    ELSE IF s.m_bIsStable
         THEN Step([s EXCEPT !.m_bIsStable = FALSE], "placeHMD.unstable")
         ELSE Step(setState(s, "calibrateStepFailed"), "placeHMD.idle")

\* isStable: getIsHMDStableAndAlignedWithGravity() on this tick
updatePlaceHMD(s, isStable, dt) ==
    IF isStable
    THEN IF s.m_bIsStable
         THEN LET s1 == [s EXCEPT !.stableDuration = ReadStableDuration(s, dt)]
              IN  IF s1.stableDuration >= k_stabilize_wait_time_ms
                  THEN Step(setState(s1, "calibrationStepRecordHMD"), "placeHMD.dwelt")
                  ELSE Step(s1, "placeHMD.waiting")
         ELSE Step([s EXCEPT !.m_bIsStable = TRUE, !.stableDuration = 0],
                   "placeHMD.stable")
    ELSE IF s.m_bIsStable
         THEN Step([s EXCEPT !.m_bIsStable = FALSE], "placeHMD.unstable")
         ELSE Step(s, "placeHMD.idle")

\* the loop "Average together all the samples we captured" of the head set:
\* what it adds to the initial value of the accumulator
RECURSIVE SumHmdSamples(_, _, _, _)
SumHmdSamples(init, samples, sampleCount, sampleIndex) ==
    IF sampleIndex >= k_mat_sample_location_count
    THEN init
    ELSE VecAdd(SumHmdSamples(init, samples, sampleCount, sampleIndex + 1),
                samples[sampleCount])

AverageHmdPosition(worldSpacePoints, sampleCount) ==
    unsafe_divide(
        SumHmdSamples(k_psmove_float_vector3_zero, worldSpacePoints, sampleCount, 0),
        k_mat_sample_location_count)

AverageHmdOrientation(worldSpaceOrientations, sampleCount) ==
    normalize_with_default(
        unsafe_divide(
            SumHmdSamples(k_psmove_quaternion_identity, worldSpaceOrientations,
                          sampleCount, 0),
            k_mat_sample_location_count),
        k_psmove_quaternion_identity)

\* pose: getHmdPose() on this tick
updateRecordHMD(s, isStable, isTracking, pose) ==
    IF isStable
    THEN IF isTracking
            /\ s.m_hmdTrackerPoseContext.worldSpaceSampleCount
                   < k_mat_sample_location_count
         THEN LET sampleCount == s.m_hmdTrackerPoseContext.worldSpaceSampleCount
                  h1 == [s.m_hmdTrackerPoseContext EXCEPT
                            !.worldSpacePoints[sampleCount] = pose.Position,
                            !.worldSpaceOrientations[sampleCount] = pose.Orientation,
                            !.worldSpaceSampleCount = sampleCount + 1]
              IN  IF h1.worldSpaceSampleCount >= k_mat_sample_location_count
                  THEN Step(setState(
                           [s EXCEPT !.m_hmdTrackerPoseContext =
                               [h1 EXCEPT
                                   !.avgHMDWorldSpacePoint =
                                       AverageHmdPosition(h1.worldSpacePoints, sampleCount),
                                   !.avgHMDWorldSpaceOrientation =
                                       AverageHmdOrientation(h1.worldSpaceOrientations,
                                                             sampleCount)]],
                           "calibrationStepComputeTrackerPoses"), "recordHMD.full")
                  ELSE Step([s EXCEPT !.m_hmdTrackerPoseContext = h1], "recordHMD.sample")
         ELSE Step(s, "recordHMD.hold")
    ELSE Step(setState(s, "calibrationStepPlaceHMD"), "recordHMD.moved")

\* computeTrackerCameraPose: solved is what cv::solvePnP returns for this tracker
computeTrackerCameraPose(ctx, solved) ==
    IF solved
    THEN [ctx EXCEPT !.bValidTrackerPose = TRUE,
                     !.trackerPose = "solved",
                     !.hmdCameraRelativeTrackerPose = "solved"]
    ELSE [ctx EXCEPT !.bValidTrackerPose = FALSE]

\* the loop "Compute and the pose transform for each tracker", from tracker t
\* on, in the order of m_trackerViews: <<contexts, bSuccess>>
RECURSIVE ComputeLoop(_, _, _, _)
ComputeLoop(contexts, bSuccess, t, solved) ==
    IF ~bSuccess \/ ~(\E u \in m_trackerViews : u >= t)
    THEN <<contexts, bSuccess>>
    ELSE IF t \in m_trackerViews
         THEN ComputeLoop(
                  [contexts EXCEPT ![t] = computeTrackerCameraPose(contexts[t], solved[t])],
                  bSuccess /\ solved[t], t + 1, solved)
         ELSE ComputeLoop(contexts, bSuccess, t + 1, solved)

\* the loop "Update the poses on each local tracker view and notify the service"
RequestSetTrackerPoses(reqs) ==
    [t \in TrackerIndices |-> IF t \in m_trackerViews THEN reqs[t] + 1 ELSE reqs[t]]

\* mutant: the poses of the trackers solved so far are reported although a
\* later solve failed
updateComputeTrackerPoses_ReportsPartial(s, solved) ==
    LET r == ComputeLoop(s.m_psmoveTrackerPoseContexts, TRUE, 0, solved)
        s1 == [s EXCEPT
                  !.m_psmoveTrackerPoseContexts = r[1],
                  !.requests =
                      [t \in TrackerIndices |->
                          IF t \in m_trackerViews /\ r[1][t].bValidTrackerPose
                          THEN s.requests[t] + 1 ELSE s.requests[t]]]
    IN  IF r[2]
        THEN Step(setState(s1, "calibrateStepSuccess"), "compute.success")
        ELSE Step(setState(s1, "calibrateStepFailed"), "compute.failed")

updateComputeTrackerPoses(s, solved) ==
    LET r == ComputeLoop(s.m_psmoveTrackerPoseContexts, TRUE, 0, solved)
        s1 == [s EXCEPT !.m_psmoveTrackerPoseContexts = r[1]]
    IN  IF r[2]
        THEN Step(setState([s1 EXCEPT !.requests = RequestSetTrackerPoses(s1.requests)],
                           "calibrateStepSuccess"), "compute.success")
        ELSE Step(setState(s1, "calibrateStepFailed"), "compute.failed")

\* mutant: a tick in Success or Failed starts the session over
updateTerminal_StartsOver(s) ==
    Step(setState(s, "initial"), "terminal")

\* the cases calibrateStepSuccess and calibrateStepFailed: break
updateTerminal(s) ==
    Step(s, "terminal")

-----------------------------------------------------------------------------
(* Initial states and actions *)

\* a PS3EYETrackerPoseContext nothing was written to, holding count samples
IndeterminateTrackerContext(count, valid) ==
    [ screenSpacePoints |-> [i \in SampleSlots |-> IndeterminatePoint],
      screenSpacePointCount |-> count,
      avgScreenSpacePointAtLocation |-> [l \in Locations |-> IndeterminatePoint],
      bValidTrackerPose |-> valid,
      trackerPose |-> "indeterminate",
      hmdCameraRelativeTrackerPose |-> "indeterminate" ]

IndeterminateHmdContext(count) ==
    [ worldSpacePoints |-> [i \in HmdSlots |-> IndeterminatePosition],
      worldSpaceOrientations |-> [i \in HmdSlots |-> IndeterminateOrientation],
      worldSpaceSampleCount |-> count,
      avgHMDWorldSpacePoint |-> IndeterminatePosition,
      avgHMDWorldSpaceOrientation |-> IndeterminateOrientation ]

\* the tracker views of the parent stage: list indices 0 .. n-1
TrackerViewSets == {{0}, TrackerIndices}

\* The constructor sets m_menuState only: every other member holds whatever
\* the memory held.
Init ==
    /\ m_menuState = "initial"
    /\ m_bIsStable \in BOOLEAN
    /\ stableDuration \in {0, k_stabilize_wait_time_ms}
    /\ m_sampleLocationIndex \in 0 .. k_mat_sample_location_count
    /\ \E counts \in [TrackerIndices -> 0 .. k_mat_calibration_sample_count],
          valid \in BOOLEAN :
           m_psmoveTrackerPoseContexts =
               [t \in TrackerIndices |-> IndeterminateTrackerContext(counts[t], valid)]
    /\ \E count \in {0, k_mat_sample_location_count} :
           m_hmdTrackerPoseContext = IndeterminateHmdContext(count)
    /\ m_trackerViews \in TrackerViewSets
    /\ m_hmdView \in BOOLEAN
    /\ requests = [t \in TrackerIndices |-> 0]
    /\ lastStep = "constructor"
    /\ stableStreak = NoStreak
    /\ solve = NoSolve

enter ==
    /\ m_menuState \in MenuStates
    /\ Commit(Step(setState(Self, "calibrationStepPlacePSMove"), "enter"))

exit ==
    /\ m_menuState \in MenuStates
    /\ Commit(Step(setState(Self, "initial"),
                   IF m_menuState = "initial" THEN "exit.initial" ELSE "exit"))

\* renderUI(): the "Restart Calibration" button of the four panels that show it
RestartCalibration ==
    /\ m_menuState \in { "calibrationStepPlacePSMove", "calibrationStepRecordPSMove",
                         "calibrationStepPlaceHMD", "calibrationStepRecordHMD" }
    /\ Commit(Step(setState(Self, "initial"), "restart"))

PixelReports == [TrackerIndices -> ScreenPoints \cup {NoPixel}]

\* update(): the switch on m_menuState, with what the devices report on this tick
update ==
    CASE m_menuState = "initial" ->
            Commit(updateInitial(Self))
      [] m_menuState = "calibrationStepPlacePSMove" ->
            \E isStable \in BOOLEAN, dt \in FrameTimes :
                CommitObserved(updatePlacePSMove(Self, isStable, dt), isStable, dt)
      [] m_menuState = "calibrationStepRecordPSMove" ->
            \E bIsStable \in BOOLEAN, isTracking \in BOOLEAN, pixels \in PixelReports :
                Commit(updateRecordPSMove(Self, bIsStable, isTracking, pixels))
      [] m_menuState = "calibrationStepPlaceHMD" ->
            \E isStable \in BOOLEAN, dt \in FrameTimes :
                CommitObserved(updatePlaceHMD(Self, isStable, dt), isStable, dt)
      [] m_menuState = "calibrationStepRecordHMD" ->
            \E isStable \in BOOLEAN, isTracking \in BOOLEAN, pose \in HmdPoses :
                Commit(updateRecordHMD(Self, isStable, isTracking, pose))
      [] m_menuState = "calibrationStepComputeTrackerPoses" ->
            \E solved \in [TrackerIndices -> BOOLEAN] :
                Commit(updateComputeTrackerPoses(Self, solved))
      [] OTHER ->
            Commit(updateTerminal(Self))

Next == enter \/ exit \/ RestartCalibration \/ update

Spec == Init /\ [][Next]_vars

-----------------------------------------------------------------------------
(* The session on arrival at mat location k *)

\* The state the session is in when the controller is to be placed on mat
\* location k, locations 0 .. k-1 being complete: PlacePSMove with the sample
\* counts 0, the stability flag false and an averaged point stored for each
\* earlier location.  update() reaches it from the constructor for k = 0
\* only (onEnterState sets m_sampleLocationIndex to 0 on every entry into
\* PlacePSMove); the handlers of the later states are exercised from here, for
\* the first and the last location.
ArrivalLocations == {0, k_mat_sample_location_count - 1}

InitAtLocation ==
    /\ m_menuState = "calibrationStepPlacePSMove"
    /\ m_bIsStable = FALSE
    /\ stableDuration = 0
    /\ m_sampleLocationIndex \in ArrivalLocations
    /\ m_psmoveTrackerPoseContexts =
           [t \in TrackerIndices |->
               [IndeterminateTrackerContext(0, FALSE) EXCEPT
                   !.avgScreenSpacePointAtLocation =
                       [l \in Locations |->
                           IF l < m_sampleLocationIndex
                           THEN unsafe_divide(Vec(<<0, 0>>), k_mat_calibration_sample_count)
                           ELSE IndeterminatePoint]]]
    /\ m_hmdTrackerPoseContext = HmdContextClear
    /\ m_trackerViews \in TrackerViewSets
    /\ m_hmdView \in BOOLEAN
    /\ requests = [t \in TrackerIndices |-> 0]
    /\ lastStep = "arrival"
    /\ stableStreak = NoStreak
    /\ solve = NoSolve

SpecAtLocation == InitAtLocation /\ [][Next]_vars

-----------------------------------------------------------------------------
(* A cooperative operator with one tracker and no head device *)

InitOneTracker ==
    /\ Init
    /\ m_trackerViews = {0}
    /\ m_hmdView = FALSE

\* update() with an operator who keeps the controller stable and tracked
\* until every tracker has its samples and then picks it up
CooperativeUpdate ==
    CASE m_menuState = "calibrationStepPlacePSMove" ->
            \E dt \in FrameTimes :
                CommitObserved(updatePlacePSMove(Self, TRUE, dt), TRUE, dt)
      [] m_menuState = "calibrationStepRecordPSMove" ->
            \E pixels \in [TrackerIndices -> ScreenPoints] :
                Commit(updateRecordPSMove(Self, NeedMoreSamples(Self), TRUE, pixels))
      [] m_menuState = "calibrationStepPlaceHMD" ->
            \E dt \in FrameTimes :
                CommitObserved(updatePlaceHMD(Self, TRUE, dt), TRUE, dt)
      [] m_menuState = "calibrationStepRecordHMD" ->
            \E pose \in HmdPoses :
                Commit(updateRecordHMD(Self, TRUE, TRUE, pose))
      [] OTHER ->
            update

\* the application calls update() once per frame for as long as the stage
\* is active: a tick that stays possible is eventually taken
LiveSpec ==
    InitOneTracker /\ [][CooperativeUpdate]_vars /\ WF_vars(CooperativeUpdate)

\* the same operator, who also keeps the head device at rest and tracked,
\* in a session with a head device
InitWithHmd ==
    /\ Init
    /\ m_hmdView = TRUE

LiveSpecWithHmd ==
    InitWithHmd /\ [][CooperativeUpdate]_vars /\ WF_vars(CooperativeUpdate)

-----------------------------------------------------------------------------
(* The static functions computeTrackerCameraPose and                       *)
(* computePSMoveTrackerToHMDTrackerSpaceTransform, applied to arguments    *)
(* drawn from small sets                                                   *)

\* the mat locations in cm, as hundredths: x offset 14, bulb height 17.7,
\* z offset 10.75
k_sample_3d_locations ==
    [l \in Locations |->
        [v |-> << <<1400, 1770, 1075>>, <<0 - 1400, 1770, 1075>>, <<0, 1770, 0>>,
                  <<0 - 1400, 1770, 0 - 1075>>, <<1400, 1770, 0 - 1075>> >>[l + 1],
         d |-> 100]]

\* trackerView->getTrackerPixelExtents().j
TrackerPixelHeights == {480}

\* averaged points a tracker context may hold for a location
AveragedPoints ==
    { unsafe_divide(Vec(<<0, 0>>), k_mat_calibration_sample_count),
      unsafe_divide(Vec(<<2, 4>>), k_mat_calibration_sample_count) }

\* cv::Point2f(screenPoint.x, trackerPixelDimensions.j - screenPoint.y)
FlipPixelY(screenPoint, height) ==
    [v |-> <<screenPoint.v[1], height * screenPoint.d - screenPoint.v[2]>>,
     d |-> screenPoint.d]

\* an array element; a read past the end of the array yields whatever lies
\* behind it
ReadArray(array, index, behind) ==
    IF index \in DOMAIN array THEN array[index] ELSE behind

\* the loop "Copy the object/image point mappings into OpenCV format":
\* cvObjectPoints and cvImagePoints as one sequence of pairs
RECURSIVE CopyPointMappings(_, _, _)
CopyPointMappings(avgScreenSpacePointAtLocation, height, locationIndex) ==
    IF locationIndex >= k_mat_calibration_sample_count
    THEN << >>
    ELSE << [ object |-> ReadArray(k_sample_3d_locations, locationIndex,
                                   IndeterminatePosition),
              image |-> FlipPixelY(
                            ReadArray(avgScreenSpacePointAtLocation, locationIndex,
                                      IndeterminatePoint),
                            height) ] >>
         \o CopyPointMappings(avgScreenSpacePointAtLocation, height, locationIndex + 1)

\* xError*xError + yError*yError of a projected point
SquaredErrors == {0, 4}

\* trackerCoregData.reprojectionError before the call
PriorReprojectionErrors == {9}

\* the loop over projectedPoints of "Compute the re-projection error":
\* the value of trackerCoregData.reprojectionError once iterations i, i+1, .. have run
RECURSIVE ReprojectionErrorLoop(_, _, _)
ReprojectionErrorLoop(reprojectionError, squaredErrors, i) ==
    IF i > Len(squaredErrors)
    THEN reprojectionError
    ELSE ReprojectionErrorLoop(squaredErrors[i], squaredErrors, i + 1)

\* glm::mat4 as an exact rational matrix: [m |-> rows, d |-> den] stands for
\* m/d; the last row of a rigid transform is <<0, 0, 0, d>>
Mat4Identity ==
    [m |-> << <<1, 0, 0, 0>>, <<0, 1, 0, 0>>, <<0, 0, 1, 0>>, <<0, 0, 0, 1>> >>, d |-> 1]

\* glm operator*: the right factor is applied first
MatMul(a, b) ==
    LET Cell(i, j) ==
            a.m[i][1] * b.m[1][j] + a.m[i][2] * b.m[2][j]
                + a.m[i][3] * b.m[3][j] + a.m[i][4] * b.m[4][j]
        Row(i) == <<Cell(i, 1), Cell(i, 2), Cell(i, 3), Cell(i, 4)>>
    IN  [m |-> <<Row(1), Row(2), Row(3), Row(4)>>, d |-> a.d * b.d]

\* equality of the values two matrices stand for
MatEq(a, b) ==
    \A i \in 1 .. 4, j \in 1 .. 4 : a.m[i][j] * b.d = b.m[i][j] * a.d

\* the matrix applied to a point
ApplyMat(a, point) ==
    LET Coordinate(i) ==
            a.m[i][1] * point.v[1] + a.m[i][2] * point.v[2]
                + a.m[i][3] * point.v[3] + a.m[i][4] * point.d
    IN  [v |-> <<Coordinate(1), Coordinate(2), Coordinate(3)>>, d |-> a.d * point.d]

\* the rotation of the quaternion (w, x, y, z): [r |-> rows, n |-> den]
\* stands for r/n
QuatRotation(q) ==
    LET w == q[1]
        x == q[2]
        y == q[3]
        z == q[4]
    IN  [r |-> << <<w*w + x*x - y*y - z*z, 2 * (x*y - w*z), 2 * (x*z + w*y)>>,
                  <<2 * (x*y + w*z), w*w - x*x + y*y - z*z, 2 * (y*z - w*x)>>,
                  <<2 * (x*z - w*y), 2 * (y*z + w*x), w*w - x*x - y*y + z*z>> >>,
         n |-> w*w + x*x + y*y + z*z]

\* psmove_pose_to_glm_mat4 (MathGLM): translation by the position after the
\* rotation of the orientation
psmove_pose_to_glm_mat4(orientation, position) ==
    LET rot == QuatRotation(orientation.v)
        Row(i) == <<rot.r[i][1] * position.d, rot.r[i][2] * position.d,
                    rot.r[i][3] * position.d, position.v[i] * rot.n>>
    IN  [m |-> <<Row(1), Row(2), Row(3), <<0, 0, 0, rot.n * position.d>> >>,
         d |-> rot.n * position.d]

\* glm::inverse of a rigid transform: the transposed rotation, and the
\* translation it takes back to the origin
glm_inverse(a) ==
    LET Row(i) == <<a.m[1][i] * a.d, a.m[2][i] * a.d, a.m[3][i] * a.d,
                    0 - (a.m[1][i] * a.m[1][4] + a.m[2][i] * a.m[2][4]
                            + a.m[3][i] * a.m[3][4])>>
    IN  [m |-> <<Row(1), Row(2), Row(3), <<0, 0, 0, a.d * a.d>> >>, d |-> a.d * a.d]

\* glm_mat4_to_psmove_pose (MathGLM): the translation of the matrix as the
\* position; the orientation is kept as the rotation of the matrix (the
\* quaternion of a rotation needs a square root)
glm_mat4_to_psmove_pose(a) ==
    LET Row(i) == <<a.m[i][1], a.m[i][2], a.m[i][3]>>
    IN  [Position |-> [v |-> <<a.m[1][4], a.m[2][4], a.m[3][4]>>, d |-> a.d],
         Rotation |-> [r |-> <<Row(1), Row(2), Row(3)>>, n |-> a.d]]

\* mutant: the three factors are multiplied in the opposite order
computePSMoveTrackerToHMDTrackerSpaceTransform_Reversed(hmdTrackerPose, psmoveCalibrationOffset, hmdTrackerPoseContext) ==
    LET hmdCameraToHmdTrackingSpace ==
            psmove_pose_to_glm_mat4(hmdTrackerPose.Orientation, hmdTrackerPose.Position)
        hmdTrackingToHmdCameraSpace == glm_inverse(hmdCameraToHmdTrackingSpace)
        psmoveCalibrationToHmdTrackingSpace ==
            psmove_pose_to_glm_mat4(hmdTrackerPoseContext.avgHMDWorldSpaceOrientation,
                                    hmdTrackerPoseContext.avgHMDWorldSpacePoint)
        psmoveCalibrationToPSMoveTrackingSpace ==
            psmove_pose_to_glm_mat4(psmoveCalibrationOffset.Orientation,
                                    psmoveCalibrationOffset.Position)
        psmoveTrackingToPSMoveCalibrationSpace ==
            glm_inverse(psmoveCalibrationToPSMoveTrackingSpace)
    IN  MatMul(MatMul(psmoveTrackingToPSMoveCalibrationSpace,
                      psmoveCalibrationToHmdTrackingSpace),
               hmdTrackingToHmdCameraSpace)

\* hmdTrackerPose: hmdView->getTrackerPose()
computePSMoveTrackerToHMDTrackerSpaceTransform(hmdTrackerPose, psmoveCalibrationOffset, hmdTrackerPoseContext) ==
    LET hmdCameraToHmdTrackingSpace ==
            psmove_pose_to_glm_mat4(hmdTrackerPose.Orientation, hmdTrackerPose.Position)
        hmdTrackingToHmdCameraSpace == glm_inverse(hmdCameraToHmdTrackingSpace)
        psmoveCalibrationToHmdTrackingSpace ==
            psmove_pose_to_glm_mat4(hmdTrackerPoseContext.avgHMDWorldSpaceOrientation,
                                    hmdTrackerPoseContext.avgHMDWorldSpacePoint)
        psmoveCalibrationToPSMoveTrackingSpace ==
            psmove_pose_to_glm_mat4(psmoveCalibrationOffset.Orientation,
                                    psmoveCalibrationOffset.Position)
        psmoveTrackingToPSMoveCalibrationSpace ==
            glm_inverse(psmoveCalibrationToPSMoveTrackingSpace)
    IN  MatMul(MatMul(hmdTrackingToHmdCameraSpace,
                      psmoveCalibrationToHmdTrackingSpace),
               psmoveTrackingToPSMoveCalibrationSpace)

\* "Covert the rotation vector and translation into a GLM 4x4 transform":
\* R is cv::Rodrigues(rvec) as a rotation r/n; RTMat holds the rows of R as
\* the columns of the glm matrix and tvecInv = -R_inv * tvec as its
\* translation
TrackerXform(R, tvec) ==
    LET Row(i) == <<R.r[1][i] * tvec.d, R.r[2][i] * tvec.d, R.r[3][i] * tvec.d,
                    0 - (R.r[1][i] * tvec.v[1] + R.r[2][i] * tvec.v[2]
                            + R.r[3][i] * tvec.v[3])>>
    IN  [m |-> <<Row(1), Row(2), Row(3), <<0, 0, 0, R.n * tvec.d>> >>,
         d |-> R.n * tvec.d]

\* k_psmove_pose_identity
k_psmove_pose_identity ==
    [Position |-> Vec(<<0, 0, 0>>), Orientation |-> Vec(<<1, 0, 0, 0>>)]

\* rigid poses: the identity, a half turn about x and a quarter turn about z,
\* each of the two with a translation
RigidPoses ==
    { k_psmove_pose_identity,
      [Position |-> Vec(<<5, 0, 10>>), Orientation |-> Vec(<<0, 1, 0, 0>>)],
      [Position |-> Vec(<<0, 3, 0>>), Orientation |-> Vec(<<1, 0, 0, 1>>)] }

\* what cv::solvePnP may find: rvec as the rotation it stands for, and tvec
SolvedPoses == RigidPoses \ {k_psmove_pose_identity}

\* the arguments of a call and what OpenCV returns in it: bValidTrackerPose
\* is the result of cv::solvePnP, squaredErrors[i] the squared distance of
\* cv::projectPoints' i-th point from the i-th image point
SolveArguments ==
    [ phase : {"called"},
      avgScreenSpacePointAtLocation : [Locations -> AveragedPoints],
      height : TrackerPixelHeights,
      reprojectionError : PriorReprojectionErrors,
      bValidTrackerPose : BOOLEAN,
      squaredErrors : [1 .. k_mat_calibration_sample_count -> SquaredErrors],
      solved : SolvedPoses,
      hmdView : BOOLEAN,
      hmdTrackerPose : RigidPoses,
      psmoveCalibrationOffset : RigidPoses,
      avgHMDWorldSpace : RigidPoses ]

InitSolve ==
    /\ m_menuState = "calibrationStepComputeTrackerPoses"
    /\ m_bIsStable = FALSE
    /\ stableDuration = 0
    /\ m_sampleLocationIndex = k_mat_sample_location_count
    /\ m_psmoveTrackerPoseContexts =
           [t \in TrackerIndices |-> IndeterminateTrackerContext(0, FALSE)]
    /\ m_hmdTrackerPoseContext = HmdContextClear
    /\ m_trackerViews = {0}
    /\ m_hmdView = FALSE
    /\ requests = [t \in TrackerIndices |-> 0]
    /\ lastStep = "compute"
    /\ stableStreak = NoStreak
    /\ solve \in SolveArguments

\* psmoveTrackerToHmdTrackerSpace as the ComputeTrackerPoses case makes it
\* for the call: the identity without a head device
TrackerToHmdTrackerSpace(arguments) ==
    IF arguments.hmdView
    THEN computePSMoveTrackerToHMDTrackerSpaceTransform(
             arguments.hmdTrackerPose,
             arguments.psmoveCalibrationOffset,
             [ avgHMDWorldSpaceOrientation |-> arguments.avgHMDWorldSpace.Orientation,
               avgHMDWorldSpacePoint |-> arguments.avgHMDWorldSpace.Position ])
    ELSE Mat4Identity

\* trackerPose and hmdCameraRelativeTrackerPose after the call; before it
\* they hold no pose
SolvedTrackerPoses(arguments) ==
    LET trackerXform ==
            TrackerXform(QuatRotation(arguments.solved.Orientation.v),
                         arguments.solved.Position)
    IN  IF arguments.bValidTrackerPose
        THEN [ trackerPose |-> glm_mat4_to_psmove_pose(trackerXform),
               hmdCameraRelativeTrackerPose |->
                   glm_mat4_to_psmove_pose(
                       MatMul(TrackerToHmdTrackerSpace(arguments), trackerXform)) ]
        ELSE [ trackerPose |-> glm_mat4_to_psmove_pose(Mat4Identity),
               hmdCameraRelativeTrackerPose |-> glm_mat4_to_psmove_pose(Mat4Identity) ]

\* the call returns
SolveTrackerPose ==
    /\ solve.phase = "called"
    /\ solve' =
           [ phase |-> "returned",
             solved |-> solve.solved,
             hmdView |-> solve.hmdView,
             hmdTrackerPose |-> solve.hmdTrackerPose,
             psmoveCalibrationOffset |-> solve.psmoveCalibrationOffset,
             avgHMDWorldSpace |-> solve.avgHMDWorldSpace,
             psmoveTrackerToHmdTrackerSpace |-> TrackerToHmdTrackerSpace(solve),
             trackerPose |-> SolvedTrackerPoses(solve).trackerPose,
             hmdCameraRelativeTrackerPose |->
                 SolvedTrackerPoses(solve).hmdCameraRelativeTrackerPose,
             avgScreenSpacePointAtLocation |-> solve.avgScreenSpacePointAtLocation,
             height |-> solve.height,
             pointMappings |->
                 CopyPointMappings(solve.avgScreenSpacePointAtLocation, solve.height, 0),
             bValidTrackerPose |-> solve.bValidTrackerPose,
             squaredErrors |-> solve.squaredErrors,
             reprojectionError |->
                 IF solve.bValidTrackerPose
                 THEN ReprojectionErrorLoop(0, solve.squaredErrors, 1)
                 ELSE solve.reprojectionError ]
    /\ UNCHANGED <<m_menuState, m_bIsStable, stableDuration, m_sampleLocationIndex,
                   m_psmoveTrackerPoseContexts, m_hmdTrackerPoseContext,
                   m_trackerViews, m_hmdView, requests, lastStep, stableStreak>>

SolveSpec == InitSolve /\ [][SolveTrackerPose]_vars

-----------------------------------------------------------------------------
(* Vocabulary of the properties *)

Count(t) == m_psmoveTrackerPoseContexts[t].screenSpacePointCount

AvgPoints(t) == m_psmoveTrackerPoseContexts[t].avgScreenSpacePointAtLocation

HmdCount == m_hmdTrackerPoseContext.worldSpaceSampleCount

\* every tracker has its samples for the current location
SamplingComplete ==
    \A t \in m_trackerViews : Count(t) = k_mat_calibration_sample_count

\* the code paths of an update() tick in RecordPSMove on which the
\* controller reports not stable
UnstableRecordSteps == {"record.moved", "record.next", "record.toHMD", "record.noHMD"}

-----------------------------------------------------------------------------
(* C1 *)

\* C1: with one tracker, no head device and a cooperative operator the
\* session eventually reaches Success with exactly one tracker pose reported.
C1_EventuallySuccess ==
    <>(m_menuState = "calibrateStepSuccess" /\ requests[0] = 1)

(* C2 *)

\* C2: a tick in RecordPSMove with sampling complete at location k < 4 and
\* the controller not stable moves to PlacePSMove with the index at k + 1.
C2_LocationAdvance ==
    [][ ( /\ m_menuState = "calibrationStepRecordPSMove"
          /\ SamplingComplete
          /\ m_sampleLocationIndex < k_mat_sample_location_count - 1
          /\ lastStep' \in UnstableRecordSteps )
        => ( /\ m_menuState' = "calibrationStepPlacePSMove"
             /\ m_sampleLocationIndex' = m_sampleLocationIndex + 1 ) ]_vars

(* C3 *)

C5_PoseSolveOutcome ==
    [][ ( /\ m_menuState = "calibrationStepComputeTrackerPoses"
          /\ lastStep' \in {"compute.success", "compute.failed"} )
        => IF \E t \in m_trackerViews :
                  ~m_psmoveTrackerPoseContexts'[t].bValidTrackerPose
           THEN /\ m_menuState' = "calibrateStepFailed"
                /\ requests' = requests
           ELSE /\ m_menuState' = "calibrateStepSuccess"
                /\ \A t \in m_trackerViews : requests'[t] = requests[t] + 1
                /\ \A t \in TrackerIndices \ m_trackerViews : requests'[t] = requests[t]
      ]_vars

\* a solve failed after the solve of an earlier tracker had succeeded
C5_Witness ==
    /\ m_menuState = "calibrateStepFailed"
    /\ lastStep = "compute.failed"
    /\ \E t \in m_trackerViews : m_psmoveTrackerPoseContexts[t].bValidTrackerPose
    /\ \A t \in m_trackerViews : requests[t] = 0

(* C6 *)

SessionCleared ==
    /\ \A t \in m_trackerViews : Count(t) = 0
    /\ m_sampleLocationIndex = 0
    /\ m_bIsStable = FALSE
    /\ HmdCount = 0

\* C7 as claimed: after a restart invoked from any state other than Initial
\* the sample counts, the location index, the stability flag and the head
\* sample count are cleared.
C7_RestartClears ==
    lastStep \in {"restart", "exit"} => SessionCleared

\* C7 as amended: the restart itself only sets the step to Initial and leaves
\* the counts, the index, the stability flag and the head count as they
\* were; they are cleared when the session next leaves Initial, which enters
\* PlacePSMove.
C7_RestartThenEntryClears ==
    [][ /\ lastStep' \in {"restart", "exit", "exit.initial"}
            => /\ m_menuState' = "initial"
               /\ \A t \in TrackerIndices : Count(t)' = Count(t)
               /\ m_sampleLocationIndex' = m_sampleLocationIndex
               /\ m_bIsStable' = m_bIsStable
               /\ HmdCount' = HmdCount
        /\ (m_menuState = "initial" /\ m_menuState' # "initial")
            => /\ m_menuState' = "calibrationStepPlacePSMove"
               /\ SessionCleared' ]_vars

\* the tick after a restart: samples had been written before the restart
C7_Witness ==
    /\ m_menuState = "calibrationStepPlacePSMove"
    /\ lastStep = "initial"
    /\ \E t \in m_trackerViews :
           m_psmoveTrackerPoseContexts[t].screenSpacePoints[0] \in ScreenPoints
    /\ SessionCleared

(* C8 *)

SampleCaps ==
    /\ \A t \in m_trackerViews : Count(t) \in 0 .. k_mat_calibration_sample_count
    /\ HmdCount \in 0 .. k_mat_sample_location_count

\* C8: the sample counts stay within their caps, and a tick in RecordPSMove
\* leaves a full buffer and its count as they were.
C8_SampleCaps ==
    /\ []SampleCaps
    /\ [][ \A t \in m_trackerViews :
             ( /\ m_menuState = "calibrationStepRecordPSMove"
               /\ m_menuState' = "calibrationStepRecordPSMove"
               /\ Count(t) = k_mat_calibration_sample_count )
             => /\ Count(t)' = Count(t)
                /\ m_psmoveTrackerPoseContexts'[t].screenSpacePoints
                       = m_psmoveTrackerPoseContexts[t].screenSpacePoints ]_vars

\* a tracker with a full buffer observed the controller on a sampling tick
C8_Witness ==
    /\ m_menuState = "calibrationStepRecordPSMove"
    /\ lastStep = "record.capped"
    /\ \E t \in m_trackerViews : Count(t) = k_mat_calibration_sample_count

(* C9 *)

RECURSIVE SumOfAll(_, _, _)
SumOfAll(zero, samples, n) ==
    IF n = 0 THEN zero ELSE VecAdd(SumOfAll(zero, samples, n - 1), samples[n - 1])

\* C9: once a tracker has its N samples, the averaged point stored for the
\* current location is the component-wise mean of the N samples.
C9_AverageIsMean ==
    \A t \in m_trackerViews :
        ( /\ m_menuState = "calibrationStepRecordPSMove"
          /\ Count(t) = k_mat_calibration_sample_count )
        => VecEq(AvgPoints(t)[m_sampleLocationIndex],
                 unsafe_divide(
                     SumOfAll(Vec(<<0, 0>>),
                              m_psmoveTrackerPoseContexts[t].screenSpacePoints,
                              k_mat_calibration_sample_count),
                     k_mat_calibration_sample_count))

(* C10 *)

PlaceTickSteps ==
    { "place.dwelt", "place.waiting", "place.stable", "place.unstable", "place.idle",
      "placeHMD.dwelt", "placeHMD.waiting", "placeHMD.stable", "placeHMD.unstable",
      "placeHMD.idle" }

\* the Record state a Place state leads to
RecordStateOf(placeState) ==
    IF placeState = "calibrationStepPlacePSMove"
    THEN "calibrationStepRecordPSMove"
    ELSE "calibrationStepRecordHMD"

\* C11: a tick in PlacePSMove (PlaceHMD) moves to RecordPSMove (RecordHMD) if
\* and only if the signal was true on every tick since a tick of the current
\* state that lies at least the dwell time back; otherwise the tick stays in
\* the state, and a tick with the signal false leaves no stable time behind.
C11_DwellThreshold ==
    [][ ( /\ m_menuState \in PlaceStates
          /\ lastStep' \in PlaceTickSteps )
        => /\ m_menuState' \in {m_menuState, RecordStateOf(m_menuState)}
           /\ (m_menuState' = RecordStateOf(m_menuState))
                  <=> (stableStreak' >= k_stabilize_wait_time_ms)
           /\ (stableStreak' = NoStreak) => ~m_bIsStable' ]_vars

\* the head device rested for the dwell time and the tick that saw it moved
\* the session to RecordHMD
C11_Witness ==
    /\ m_menuState = "calibrationStepRecordHMD"
    /\ lastStep = "placeHMD.dwelt"
    /\ stableStreak = k_stabilize_wait_time_ms

(* C12 *)

TerminalStates == {"calibrateStepSuccess", "calibrateStepFailed"}

\* an update() tick in Success or Failed leaves the step and the session
\* data (counts, samples, averages, validity flags and poses, the location
\* index, the stability flag and its timer, the reported poses) as they were
TerminalTickChangesNothing ==
    (m_menuState \in TerminalStates /\ lastStep' = "terminal")
        => UNCHANGED <<m_menuState, m_bIsStable, stableDuration,
                       m_sampleLocationIndex, m_psmoveTrackerPoseContexts,
                       m_hmdTrackerPoseContext, requests>>

HmdStates == {"calibrationStepPlaceHMD", "calibrationStepRecordHMD"}

\* C13: with no head device (m_hmdView is null) the session is never in
\* PlaceHMD or RecordHMD, the two states whose tick dereferences HMDView.
C13_NoHmdStatesWithoutHmd ==
    ~m_hmdView => m_menuState \notin HmdStates

\* without a head device, the tick that completed the last location took
\* the branch around PlaceHMD
C13_Witness ==
    /\ ~m_hmdView
    /\ lastStep = "record.noHMD"
    /\ m_sampleLocationIndex = k_mat_sample_location_count
    /\ m_menuState \notin HmdStates

(* C14 *)

\* C14: a tick in PlacePSMove or PlaceHMD on which the device does not
\* satisfy the stability condition stays in that state, however much time
\* has passed; Failed is entered by a failed pose solve only.
C14_NoTimeout ==
    [][ /\ ( /\ m_menuState \in PlaceStates
             /\ lastStep' \in PlaceTickSteps
             /\ stableStreak' = NoStreak )
            => m_menuState' = m_menuState
        /\ (m_menuState' = "calibrateStepFailed" /\ m_menuState # m_menuState')
            => ( /\ m_menuState = "calibrationStepComputeTrackerPoses"
                 /\ lastStep' = "compute.failed" ) ]_vars

\* the head device was not at rest on two ticks in a row, and the session
\* is still waiting for it
C14_Witness ==
    /\ m_menuState = "calibrationStepPlaceHMD"
    /\ lastStep = "placeHMD.idle"
    /\ stableStreak = NoStreak

(* C15 *)

\* C15: with a head device and a cooperative operator the session gets from
\* RecordPSMove to PlaceHMD, from there to RecordHMD and from there to
\* ComputeTrackerPoses.
C15_HeadBranchReached ==
    /\ <>(m_menuState = "calibrationStepPlaceHMD")
    /\ (m_menuState = "calibrationStepPlaceHMD")
           ~> (m_menuState = "calibrationStepRecordHMD")
    /\ (m_menuState = "calibrationStepRecordHMD")
           ~> (m_menuState = "calibrationStepComputeTrackerPoses")

(* C16 *)

\* the code paths of an update() tick in RecordHMD
RecordHmdTickSteps ==
    {"recordHMD.full", "recordHMD.sample", "recordHMD.hold", "recordHMD.moved"}

\* C16: a tick in RecordHMD on which the head device is not stable, the
\* buffer being short of its samples, returns to PlaceHMD with the head
\* sample count 0; the tick on which the buffer becomes full stores the
\* averages its averaging loop computes and moves to ComputeTrackerPoses.
C16_RecordHmd ==
    [][ ( /\ m_menuState = "calibrationStepRecordHMD"
          /\ lastStep' \in RecordHmdTickSteps )
        => /\ (lastStep' = "recordHMD.moved" /\ HmdCount < k_mat_sample_location_count)
                => ( /\ m_menuState' = "calibrationStepPlaceHMD"
                     /\ HmdCount' = 0 )
           /\ (HmdCount < k_mat_sample_location_count
                   /\ HmdCount' = k_mat_sample_location_count)
                => ( /\ m_menuState' = "calibrationStepComputeTrackerPoses"
                     /\ m_hmdTrackerPoseContext'.avgHMDWorldSpacePoint =
                            AverageHmdPosition(
                                m_hmdTrackerPoseContext'.worldSpacePoints, HmdCount)
                     /\ m_hmdTrackerPoseContext'.avgHMDWorldSpaceOrientation =
                            AverageHmdOrientation(
                                m_hmdTrackerPoseContext'.worldSpaceOrientations,
                                HmdCount) )
           /\ (m_menuState' = "calibrationStepComputeTrackerPoses")
                => HmdCount' = k_mat_sample_location_count
           /\ m_menuState' \in { "calibrationStepRecordHMD", "calibrationStepPlaceHMD",
                                 "calibrationStepComputeTrackerPoses" } ]_vars

\* the head device moved after two of its samples had been recorded
C16_Witness ==
    /\ m_menuState = "calibrationStepPlaceHMD"
    /\ lastStep = "recordHMD.moved"
    /\ HmdCount = 0
    /\ m_hmdTrackerPoseContext.worldSpacePoints[1] = Vec(<<5, 0, 10>>)

(* C17 *)

\* the code paths of an update() tick in RecordPSMove
RecordTickSteps ==
    { "record.sample", "record.capped", "record.moved", "record.hold",
      "record.next", "record.toHMD", "record.noHMD" }

\* this step, an update() tick in RecordPSMove, is the one the handler makes
\* when the controller reports bIsStable and isTracking and the trackers
\* report pixels
IsRecordTick(bIsStable, isTracking, pixels) ==
    LET s == updateRecordPSMove(Self, bIsStable, isTracking, pixels)
    IN  /\ s.lastStep = lastStep'
        /\ s.m_menuState = m_menuState'
        /\ s.m_psmoveTrackerPoseContexts = m_psmoveTrackerPoseContexts'
        /\ s = Self'

\* C17: a tracker's sample count goes up only on a tick in RecordPSMove, by
\* one and from below N; on whatever reports produce that tick the
\* controller is stable and tracked and the tracker reports a pixel
\* location; on a tick with the controller stable, a tracker that does not
\* observe the controller keeps its count.
C17_SamplingFilter ==
    [][ /\ \A t \in m_trackerViews :
              (Count(t)' > Count(t))
                  => /\ m_menuState = "calibrationStepRecordPSMove"
                     /\ lastStep' \in RecordTickSteps
                     /\ Count(t) < k_mat_calibration_sample_count
                     /\ Count(t)' = Count(t) + 1
        /\ (m_menuState = "calibrationStepRecordPSMove" /\ lastStep' \in RecordTickSteps)
              => \A bIsStable \in BOOLEAN, isTracking \in BOOLEAN,
                    pixels \in PixelReports :
                     IsRecordTick(bIsStable, isTracking, pixels)
                         => \A t \in m_trackerViews :
                                /\ (Count(t)' > Count(t))
                                     => (bIsStable /\ isTracking /\ pixels[t] # NoPixel)
                                /\ (bIsStable /\ ~(isTracking /\ pixels[t] # NoPixel))
                                     => Count(t)' = Count(t) ]_vars

\* a sampling tick on which one tracker recorded its first sample and the
\* other tracker, which did not observe the controller, recorded none
C17_Witness ==
    /\ m_menuState = "calibrationStepRecordPSMove"
    /\ lastStep = "record.sample"
    /\ m_trackerViews = TrackerIndices
    /\ Count(0) = 1
    /\ Count(1) = 0
    /\ m_psmoveTrackerPoseContexts[1].screenSpacePoints[0] = IndeterminatePoint

(* C18 *)

\* C18: in RecordPSMove with every tracker at N samples, a tick on which
\* the controller reports stable leaves the step, the location index and the
\* sample data as they were; the location index goes up only on a tick in
\* RecordPSMove with sampling complete on which the controller reports not
\* stable.
C18_WaitForPickUp ==
    [][ /\ ( /\ m_menuState = "calibrationStepRecordPSMove"
             /\ SamplingComplete
             /\ lastStep' \in RecordTickSteps )
            => \A isTracking \in BOOLEAN, pixels \in PixelReports :
                   IsRecordTick(TRUE, isTracking, pixels)
                       => UNCHANGED <<m_menuState, m_sampleLocationIndex,
                                      m_psmoveTrackerPoseContexts,
                                      m_hmdTrackerPoseContext>>
        /\ (m_sampleLocationIndex' > m_sampleLocationIndex)
            => /\ m_menuState = "calibrationStepRecordPSMove"
               /\ SamplingComplete
               /\ lastStep' \in RecordTickSteps
               /\ m_sampleLocationIndex' = m_sampleLocationIndex + 1
               /\ \A bIsStable \in BOOLEAN, isTracking \in BOOLEAN,
                     pixels \in PixelReports :
                      IsRecordTick(bIsStable, isTracking, pixels) => ~bIsStable ]_vars

\* the controller stayed on the last location after every tracker had its
\* samples
C18_Witness ==
    /\ m_menuState = "calibrationStepRecordPSMove"
    /\ lastStep = "record.hold"
    /\ SamplingComplete
    /\ m_sampleLocationIndex = k_mat_sample_location_count - 1

(* C19 *)

\* C19: an update() tick in Initial moves to PlacePSMove, and after it every
\* tracker's sample count is 0, the location index is 0, the stability flag
\* is false and the head sample set is cleared, whatever the data was.
C19_InitialTick ==
    [][ (m_menuState = "initial" /\ lastStep' \notin {"enter", "exit.initial"})
        => /\ lastStep' = "initial"
           /\ m_menuState' = "calibrationStepPlacePSMove"
           /\ \A t \in m_trackerViews : Count(t)' = 0
           /\ m_sampleLocationIndex' = 0
           /\ m_bIsStable' = FALSE
           /\ m_hmdTrackerPoseContext' = HmdContextClear ]_vars

\* the tick in Initial after the restart of a run that had filled a
\* tracker's sample buffer and was waiting with the stability flag set
C19_Witness ==
    /\ m_menuState = "calibrationStepPlacePSMove"
    /\ lastStep = "initial"
    /\ stableDuration = k_stabilize_wait_time_ms
    /\ \E t \in m_trackerViews :
           m_psmoveTrackerPoseContexts[t]
               .screenSpacePoints[k_mat_calibration_sample_count - 1] \in ScreenPoints
    /\ \A t \in m_trackerViews : Count(t) = 0
    /\ m_hmdTrackerPoseContext = HmdContextClear

(* C20 *)

\* a tracker's data holds nothing a run has written: no averaged point, no
\* pose of a solve and no validity flag a solve has set
NothingOfARun(t) ==
    /\ \A l \in Locations :
           AvgPoints(t)[l] \in {IndeterminatePoint, Vec(<<0, 0>>)}
    /\ m_psmoveTrackerPoseContexts[t].trackerPose # "solved"
    /\ m_psmoveTrackerPoseContexts[t].hmdCameraRelativeTrackerPose # "solved"
    /\ ~( /\ m_psmoveTrackerPoseContexts[t].bValidTrackerPose
          /\ m_psmoveTrackerPoseContexts[t].trackerPose = "solved" )

\* C20: when the session enters PlacePSMove anew (the tick in Initial after
\* a restart, or enter()), nothing of the run before is left: the counts and
\* the index are 0, and no tracker holds an averaged point, a validity flag
\* or a pose of that run.
C20_FullResetOnRestart ==
    [][ ( /\ m_menuState # "calibrationStepPlacePSMove"
          /\ m_menuState' = "calibrationStepPlacePSMove"
          /\ lastStep' \in {"initial", "enter"} )
        => /\ SessionCleared'
           /\ \A t \in m_trackerViews : NothingOfARun(t)' ]_vars

(* C21 *)

\* C21: computeTrackerCameraPose hands the solver exactly five
\* correspondences, the i-th made of k_sample_3d_locations[i] and the
\* tracker's averaged point of location i, for i in 0..4.
C21_SolverInputs ==
    solve.phase = "returned"
        => /\ Len(solve.pointMappings) = k_mat_sample_location_count
           /\ \A i \in Locations :
                  /\ i + 1 \in DOMAIN solve.pointMappings
                  /\ solve.pointMappings[i + 1].object = k_sample_3d_locations[i]
                  /\ solve.pointMappings[i + 1].image =
                         FlipPixelY(solve.avgScreenSpacePointAtLocation[i], solve.height)

(* C26 *)

\* C26: after a successful solve reprojectionError aggregates the squared
\* errors of all correspondences: it is not zero when one of them is not.
C26_ReprojectionError ==
    (solve.phase = "returned" /\ solve.bValidTrackerPose)
        => ( (\E i \in DOMAIN solve.squaredErrors : solve.squaredErrors[i] # 0)
                => solve.reprojectionError # 0 )

(* C25 *)

\* the origin and the three unit points: two rigid transforms that agree on
\* them are equal
TestPoints ==
    {Vec(<<0, 0, 0>>), Vec(<<1, 0, 0>>), Vec(<<0, 1, 0>>), Vec(<<0, 0, 1>>)}

\* a pose applied to a point: rotate, then translate by the position
ApplyPose(pose, point) ==
    LET Coordinate(i) ==
            pose.Rotation.r[i][1] * point.v[1] + pose.Rotation.r[i][2] * point.v[2]
                + pose.Rotation.r[i][3] * point.v[3]
    IN  VecAdd([v |-> <<Coordinate(1), Coordinate(2), Coordinate(3)>>,
                d |-> pose.Rotation.n * point.d],
               pose.Position)

\* C25: the transform takes a point through inverse(calibration offset),
\* then the averaged head pose, then inverse(head camera-to-tracking pose);
\* with the identity offset it is inverse(head camera-to-tracking) times the
\* averaged head pose; a tracker's head-camera-relative pose is its tracker
\* pose followed by the transform, and is the tracker pose itself when the
\* transform is the identity.
C25_FrameComposition ==
    solve.phase = "returned"
        => LET transform == solve.psmoveTrackerToHmdTrackerSpace
               hmdCameraToHmdTracking ==
                   psmove_pose_to_glm_mat4(solve.hmdTrackerPose.Orientation,
                                           solve.hmdTrackerPose.Position)
               avgHmdPose ==
                   psmove_pose_to_glm_mat4(solve.avgHMDWorldSpace.Orientation,
                                           solve.avgHMDWorldSpace.Position)
               offset ==
                   psmove_pose_to_glm_mat4(solve.psmoveCalibrationOffset.Orientation,
                                           solve.psmoveCalibrationOffset.Position)
           IN  /\ solve.hmdView
                    => \A point \in TestPoints :
                           VecEq(ApplyMat(transform, point),
                                 ApplyMat(glm_inverse(hmdCameraToHmdTracking),
                                     ApplyMat(avgHmdPose,
                                         ApplyMat(glm_inverse(offset), point))))
               /\ (solve.hmdView
                       /\ solve.psmoveCalibrationOffset = k_psmove_pose_identity)
                    => MatEq(transform,
                             MatMul(glm_inverse(hmdCameraToHmdTracking), avgHmdPose))
               /\ solve.bValidTrackerPose
                    => \A point \in TestPoints :
                           VecEq(ApplyPose(solve.hmdCameraRelativeTrackerPose, point),
                                 ApplyMat(transform,
                                          ApplyPose(solve.trackerPose, point)))
               /\ (solve.bValidTrackerPose /\ MatEq(transform, Mat4Identity))
                    => \A point \in TestPoints :
                           VecEq(ApplyPose(solve.hmdCameraRelativeTrackerPose, point),
                                 ApplyPose(solve.trackerPose, point))

\* a solved tracker pose with a head device whose three poses do not commute
C25_Witness ==
    /\ solve.phase = "returned"
    /\ solve.hmdView
    /\ solve.bValidTrackerPose
    /\ solve.hmdTrackerPose.Orientation = Vec(<<1, 0, 0, 1>>)
    /\ solve.avgHMDWorldSpace.Orientation = Vec(<<0, 1, 0, 0>>)
    /\ solve.psmoveCalibrationOffset.Orientation = Vec(<<1, 0, 0, 1>>)
    /\ ~MatEq(solve.psmoveTrackerToHmdTrackerSpace, Mat4Identity)
    /\ solve.hmdCameraRelativeTrackerPose # solve.trackerPose

(* C22 *)

\* C22: in PlacePSMove and in RecordPSMove the location index is one of the
\* five locations, so avgScreenSpacePointAtLocation[m_sampleLocationIndex]
\* and k_sample_location_names[m_sampleLocationIndex] are elements of their
\* arrays.
C22_LocationIndexInRange ==
    m_menuState \in {"calibrationStepPlacePSMove", "calibrationStepRecordPSMove"}
        => m_sampleLocationIndex \in Locations

\* a tracker has just stored its averaged point for the location
C22_Witness ==
    /\ m_menuState = "calibrationStepRecordPSMove"
    /\ lastStep = "record.sample"
    /\ \E t \in m_trackerViews :
           /\ Count(t) = k_mat_calibration_sample_count
           /\ AvgPoints(t)[m_sampleLocationIndex] # IndeterminatePoint

(* C23 *)

\* the averages of the head set
HmdAverages ==
    <<m_hmdTrackerPoseContext.avgHMDWorldSpacePoint,
      m_hmdTrackerPoseContext.avgHMDWorldSpaceOrientation>>

\* C23: a step that changes a tracker's averaged point of a location is the
\* tick in RecordPSMove that takes that tracker's sample count from N - 1 to
\* N, and the location is the current one; a step that changes a head
\* average, unless it is clear() zeroing the head set on entry into
\* PlacePSMove, is the tick in RecordHMD that takes the head sample count
\* from 4 to 5.
C23_AveragingOnlyAtCap ==
    [][ /\ \A t \in TrackerIndices, l \in Locations :
               AvgPoints(t)'[l] # AvgPoints(t)[l]
                   => /\ m_menuState = "calibrationStepRecordPSMove"
                      /\ lastStep' \in {"record.sample", "record.capped"}
                      /\ t \in m_trackerViews
                      /\ l = m_sampleLocationIndex
                      /\ Count(t) = k_mat_calibration_sample_count - 1
                      /\ Count(t)' = k_mat_calibration_sample_count
        /\ (HmdAverages' # HmdAverages /\ m_hmdTrackerPoseContext' # HmdContextClear)
               => /\ m_menuState = "calibrationStepRecordHMD"
                  /\ lastStep' = "recordHMD.full"
                  /\ HmdCount = k_mat_sample_location_count - 1
                  /\ HmdCount' = k_mat_sample_location_count
      ]_vars

\* the head averages have just been stored, every tracker having stored its
\* averaged point of the last location before
C23_Witness ==
    /\ lastStep = "recordHMD.full"
    /\ HmdCount = k_mat_sample_location_count
    /\ m_hmdTrackerPoseContext.avgHMDWorldSpacePoint
           \notin {IndeterminatePosition, k_psmove_float_vector3_zero}
    /\ \A t \in m_trackerViews :
           /\ Count(t) = k_mat_calibration_sample_count
           /\ AvgPoints(t)[k_mat_sample_location_count - 1] # IndeterminatePoint

(* C24 *)

\* what the exit hook of the current state and the entry hook of newState
\* make of the session as it is now
AfterHooks(newState) == onEnterState(onExitState(Self, m_menuState), newState)

\* the hooks on the way into PlaceHMD set the head sample count to 0 and
\* the stability flag to false and leave the rest (the tracker contexts with
\* their counts and averaged points, the location index, the head samples
\* and averages) as it is; the hooks on the way into RecordPSMove,
\* RecordHMD, ComputeTrackerPoses, Success, Failed or Initial leave
\* everything as it is
HooksFrame ==
    \A newState \in MenuStates \ {"calibrationStepPlacePSMove"} :
        IF newState = "calibrationStepPlaceHMD"
        THEN /\ AfterHooks(newState).m_bIsStable = FALSE
             /\ AfterHooks(newState).m_hmdTrackerPoseContext.worldSpaceSampleCount = 0
             /\ AfterHooks(newState).m_hmdTrackerPoseContext =
                    [m_hmdTrackerPoseContext EXCEPT !.worldSpaceSampleCount = 0]
             /\ AfterHooks(newState).m_psmoveTrackerPoseContexts
                    = m_psmoveTrackerPoseContexts
             /\ AfterHooks(newState).m_sampleLocationIndex = m_sampleLocationIndex
             /\ AfterHooks(newState).requests = requests
        ELSE AfterHooks(newState) = Self

\* C24: entering PlaceHMD sets the head sample count to 0 and the stability
\* flag to false and changes nothing else; entering RecordPSMove, RecordHMD,
\* ComputeTrackerPoses, Success, Failed or Initial changes no session data.
\* Stated of the hooks in every state, and of the steps that do nothing but
\* change the state.
C24_EntryHooksFrame ==
    []HooksFrame /\
    [][ /\ lastStep' = "recordHMD.moved"
               => /\ m_menuState' = "calibrationStepPlaceHMD"
                  /\ HmdCount' = 0
                  /\ m_bIsStable' = FALSE
                  /\ m_hmdTrackerPoseContext' =
                         [m_hmdTrackerPoseContext EXCEPT !.worldSpaceSampleCount = 0]
                  /\ UNCHANGED <<m_psmoveTrackerPoseContexts, m_sampleLocationIndex,
                                 requests>>
        /\ lastStep' \in {"place.dwelt", "placeHMD.dwelt"}
               => /\ m_menuState' = RecordStateOf(m_menuState)
                  /\ UNCHANGED <<m_bIsStable, m_psmoveTrackerPoseContexts,
                                 m_sampleLocationIndex, m_hmdTrackerPoseContext,
                                 requests>>
        /\ lastStep' \in {"restart", "exit"}
               => /\ m_menuState' = "initial"
                  /\ UNCHANGED <<m_bIsStable, m_psmoveTrackerPoseContexts,
                                 m_sampleLocationIndex, m_hmdTrackerPoseContext,
                                 requests>>
      ]_vars

\* the head device moved in RecordHMD after a sample: PlaceHMD is entered
\* again, the head sample count is 0, the sample is still in its slot and
\* the trackers keep their counts and averaged points
C24_Witness ==
    /\ lastStep = "recordHMD.moved"
    /\ m_menuState = "calibrationStepPlaceHMD"
    /\ HmdCount = 0
    /\ ~m_bIsStable
    /\ m_hmdTrackerPoseContext.worldSpacePoints[0]
           \notin {IndeterminatePosition, k_psmove_float_vector3_zero}
    /\ m_sampleLocationIndex = k_mat_sample_location_count
    /\ \A t \in m_trackerViews :
           /\ Count(t) = k_mat_calibration_sample_count
           /\ AvgPoints(t)[k_mat_sample_location_count - 1] # IndeterminatePoint

(* C27 *)

\* C27: the constructor leaves the session in Initial; a step stays in
\* Initial without touching the stability flag, the location index and the
\* sample counts, or leaves it for PlacePSMove, by enter() or by a tick, with
\* the stability flag false, the location index 0 and the sample counts of
\* the tracker views and of the head set 0, whatever the constructor left in
\* them: outside Initial these members hold what the entry hook of
\* PlacePSMove, or a later step, assigned.
C27_AssignedBeforeUse ==
    [][ /\ lastStep = "constructor" => m_menuState = "initial"
        /\ (m_menuState = "initial" /\ m_menuState' = "initial")
               => UNCHANGED <<m_bIsStable, m_sampleLocationIndex,
                              m_psmoveTrackerPoseContexts, m_hmdTrackerPoseContext>>
        /\ (m_menuState = "initial" /\ m_menuState' # "initial")
               => /\ m_menuState' = "calibrationStepPlacePSMove"
                  /\ lastStep' \in {"enter", "initial"}
                  /\ m_bIsStable' = FALSE
                  /\ m_sampleLocationIndex' = 0
                  /\ \A t \in m_trackerViews : Count(t)' = 0
                  /\ HmdCount' = 0
      ]_vars

\* enter() on the session as constructed: the flag, the index and the counts
\* are assigned, the sample slots still hold what the constructor left
C27_Witness ==
    /\ m_menuState = "calibrationStepPlacePSMove"
    /\ lastStep = "enter"
    /\ ~m_bIsStable
    /\ m_sampleLocationIndex = 0
    /\ HmdCount = 0
    /\ \A t \in m_trackerViews :
           /\ Count(t) = 0
           /\ \A i \in SampleSlots :
                  m_psmoveTrackerPoseContexts[t].screenSpacePoints[i] = IndeterminatePoint
           /\ \A l \in Locations : AvgPoints(t)[l] = IndeterminatePoint

(* C28 *)

Samples(t) == m_psmoveTrackerPoseContexts[t].screenSpacePoints

\* in PlacePSMove every tracker's sample count is 0; in RecordPSMove the
\* averaged point a tracker with N samples holds for the current location
\* is made of the samples in its buffer (of the last of them, C9)
NoStaleSamples ==
    /\ m_menuState = "calibrationStepPlacePSMove"
           => \A t \in m_trackerViews : Count(t) = 0
    /\ m_menuState = "calibrationStepRecordPSMove"
           => \A t \in m_trackerViews :
                  Count(t) = k_mat_calibration_sample_count
                      => VecEq(AvgPoints(t)[m_sampleLocationIndex],
                               Samples(t)[k_mat_calibration_sample_count - 1])

\* C28: RecordPSMove is entered from PlacePSMove only, with every tracker's
\* sample count 0; no step in PlacePSMove touches a sample buffer or a count;
\* in RecordPSMove a count that goes up fills the slot at the old count with
\* a pixel location of that tick and leaves the other slots alone, and a
\* tick on which the controller has moved while a tracker is short of N
\* samples sets every count to 0: the slots below the count hold samples of
\* the current stay in RecordPSMove, and the averaged point stored when the
\* count reaches N is made of them.
C28_NoStaleSamples ==
    /\ []NoStaleSamples
    /\ [][  /\ ( /\ m_menuState # "calibrationStepRecordPSMove"
               /\ m_menuState' = "calibrationStepRecordPSMove" )
               => /\ m_menuState = "calibrationStepPlacePSMove"
                  /\ \A t \in m_trackerViews : Count(t)' = 0
            /\ m_menuState = "calibrationStepPlacePSMove"
               => \A t \in TrackerIndices :
                      /\ Samples(t)' = Samples(t)
                      /\ Count(t)' = Count(t)
            /\ \A t \in m_trackerViews :
                   /\ Count(t)' > Count(t)
                         => /\ m_menuState = "calibrationStepRecordPSMove"
                            /\ Samples(t)'[Count(t)] \in ScreenPoints
                            /\ \A i \in SampleSlots \ {Count(t)} :
                                   Samples(t)'[i] = Samples(t)[i]
                   /\ Samples(t)' # Samples(t) => Count(t)' = Count(t) + 1
            /\ ( /\ m_menuState = "calibrationStepRecordPSMove"
                 /\ ~SamplingComplete
                 /\ lastStep' = "record.moved" )
               => /\ m_menuState' = "calibrationStepPlacePSMove"
                  /\ \A t \in m_trackerViews : Count(t)' = 0
          ]_vars

\* a second stay in RecordPSMove: a tracker has one sample of this stay, the
\* last slot of its buffer and its averaged point are those of the attempt
\* that was discarded
C28_Witness ==
    /\ m_menuState = "calibrationStepRecordPSMove"
    /\ \E t \in m_trackerViews :
           /\ Count(t) = 1
           /\ Samples(t)[0] = Vec(<<0, 0>>)
           /\ Samples(t)[k_mat_calibration_sample_count - 1] = Vec(<<2, 4>>)
           /\ AvgPoints(t)[m_sampleLocationIndex] = 
                  unsafe_divide(Vec(<<2 * k_mat_calibration_sample_count,
                                     4 * k_mat_calibration_sample_count>>),
                                k_mat_calibration_sample_count)

=============================================================================
